---- MODULE Spec2Model ----
(***************************************************************************)
(* A model of the CDP session layer of playwright-mcp:                     *)
(*   - CDPSessionWrapper (src/src/cdp/session.ts): command correlation,    *)
(*     domain bookkeeping, event buffering and replay, teardown;           *)
(*   - CDPManager and CDPSession (src/src/browser/CDPManager.ts): the      *)
(*     registry of sessions per page.                                      *)
(* JavaScript runs one handler at a time; an async method is split at each *)
(* await into steps, and any other handler may run between two steps.      *)
(***************************************************************************)
EXTENDS Integers, Sequences, FiniteSets, TLC

(***************************************************************************)
(* Bounds of the model and sample input sets.                              *)
(***************************************************************************)
\* cap on commandId in the correlation specification
MaxCmd == 3
\* cap on commandId in the domain specification
MaxDomCmd == 3
\* cap on close() calls of one wrapper session that are in flight at once
MaxCloseCalls == 2
\* events the transport produces in the buffer specification (all names)
MaxBufEvents == 102
\* listeners per event name in the buffer specification
MaxBufListeners == 1

\* cap on the CDPSession objects the registry creates
MaxSessions == 2
\* cap on attachToPage / detachFromPage calls in flight at once
MaxCalls == 2
MaxDetach == 1
MaxSeqCalls == 1
MaxDataSessions == 1
\* cap on the commands of one CDPSession the client has not answered
MaxOutstanding == 1
\* cap on the entries of networkRequests / consoleMessages of one CDPSession
MaxData == 1
\* caps of the lifetime specification: commandId, events produced, listeners
\* per event name, CDPSession objects created
MaxLifeCmd == 2
MaxLifeEvents == 1
MaxLifeListeners == 1
MaxLifeSessions == 2
\* caps of the delivery specification: events produced, listeners of a name
MaxDeliverEvents == 2
MaxDeliverListeners == 3
MaxInitCalls == 1
MaxTearCmd == 2
MaxTearListeners == 1
MaxTearSessions == 1
MaxHookCalls == 1
MaxHookSessions == 1
MaxHookDetach == 1
MaxInitSessions == 2
MaxSharedCmd == 2

\* session.ts:227  "if (buffer.length > 100)"
BufferLimit == 100

Domains == {"Network", "Page"}
EventNames == {"Network.requestWillBeSent", "Page.loadEventFired"}
\* handler functions; calling one of FailingHandlers throws
Handlers == {"h1", "h2", "h3"}
FailingHandlers == {"h3"}
\* what a transport response carries: a result value, or an error
Outcomes == {"a", "b", "error"}
\* the outcomes a domain command is answered with
DomOutcomes == {"a", "error"}
\* the domains the domain specification enables and disables
DomDomains == {"Network"}
\* the sessionId an event is tagged with: this session's, or another one's
SessionIds == {"self", "other"}
\* the pages (targets) the registry is asked about
Pages == {"p1", "p2"}

VARIABLES
  \* ---- CDPSessionWrapper fields (session.ts:52-64)
  closed,           \* private closed = false
  domains,          \* Map<string, DomainState>: domain -> reference of its DomainState (0: no entry)
  domainKeys,       \* the Map's keys in insertion order
  heap,             \* DomainState objects: reference -> its enabled flag
  eventBuffer,      \* Map<string, any[]>: event name -> buffered payloads (<<>>: no entry)
  eventHandlers,    \* Map<string, Set<Function>>: event name -> handlers ({}: no entry)
  commandId,        \* private commandId = 0
  pendingCommands,  \* Map<number, ...>: the ids that have an entry
  \* ---- EventEmitter state of the wrapper
  listeners,        \* event name -> listener array (registration order, duplicates kept)
  \* ---- the transport (CDPConnection) and the promises handed out
  sent,             \* the commands passed to connection.send, by command id
  futures,          \* the promise send() returned, by command id
  connCloseCalls,   \* how many times connection.close() was called
  closeSignalled,   \* the connection has emitted 'close'
  produced,         \* event name -> how many events of that name the transport produced for this session
  \* ---- async method calls suspended at an await
  domCalls,         \* enable()/disable() calls awaiting their command
  closeCalls,       \* close() calls: awaiting their disables, or connection.close()
  \* ---- observations
  delivered,        \* the handler calls made by the latest subscribe / event / close
  closedEmits,      \* how many times emit('closed') ran
  lastDone,         \* domain -> the enable/disable operation that completed successfully last
  lastOp,           \* the latest operation and its outcome
  \* ---- CDPManager fields (CDPManager.ts:71-72) and the CDPSession objects
  sessions,         \* Map<string, CDPSession>: the sessions it holds (a session's id is its key)
  pageToSessionMap, \* WeakMap<Page, CDPSession>: page -> session (0: no entry)
  sess,             \* the CDPSession objects created so far, by creation number
  \* ---- async calls of the manager suspended at an await
  attachCalls,      \* attachToPage calls
  detachCalls,      \* detachFromPage calls awaiting session.close()
  closeAllCall,     \* the closeAll call awaiting Promise.all; targets: the pages that had
                    \* an entry when the latest closeAll() was called
  \* ---- the pages (Playwright Page objects)
  pageState,        \* page -> whether it has emitted 'close', and how many 'close'
                    \* listeners attachToPage has installed on it with page.once
  \* ---- observations
  returned,         \* page -> the sessions attachToPage returned since the last detachFromPage
  \* ---- a second CDPSessionWrapper constructed on the same connection
  peer              \* its closed, commandId, pendingCommands and the promises of its send()

cmdVars == <<closed, domains, domainKeys, heap, commandId, pendingCommands, sent,
             futures, connCloseCalls, closeSignalled, domCalls, closeCalls,
             closedEmits, lastDone>>
evVars == <<eventBuffer, eventHandlers, listeners, produced, delivered>>
mgrVars == <<sessions, pageToSessionMap, sess, attachCalls, detachCalls, closeAllCall,
             returned, pageState>>
peerVars == <<peer>>
vars == <<cmdVars, evVars, mgrVars, peerVars, lastOp>>

EventKeys == EventNames \cup {"closed"}

Op(o, i, r, h) == [op |-> o, id |-> i, res |-> r, h |-> h]

PendingFuture == [st |-> "pending", val |-> "-"]
Resolved(v) == [st |-> "resolved", val |-> v]
Rejected(e) == [st |-> "rejected", val |-> e]

\* a promise settles once: resolve/reject of a settled promise does nothing
Settle(f, new) == IF f.st = "pending" THEN new ELSE f

Range(s) == {s[i] : i \in 1..Len(s)}

(***************************************************************************)
(* CDPSessionWrapper: construction                                         *)
(***************************************************************************)
InitWrapper ==
  /\ closed = FALSE
  /\ domains = [d \in Domains |-> 0]
  /\ domainKeys = <<>>
  /\ heap = <<>>
  /\ eventBuffer = [e \in EventNames |-> <<>>]
  /\ eventHandlers = [e \in EventNames |-> {}]
  /\ commandId = 0
  /\ pendingCommands = {}
  /\ listeners = [e \in EventKeys |-> <<>>]
  /\ sent = <<>>
  /\ futures = <<>>
  /\ connCloseCalls = 0
  /\ closeSignalled = FALSE
  /\ produced = [e \in EventNames |-> 0]
  /\ domCalls = {}
  /\ closeCalls = <<>>
  /\ delivered = <<>>
  /\ closedEmits = 0
  /\ lastDone = [d \in Domains |-> "none"]
  /\ lastOp = Op("init", 0, "-", "-")

(***************************************************************************)
(* CDPSessionWrapper.send                                                  *)
(***************************************************************************)
\* an allocation that takes the lowest id without a pending entry instead of
\* ++commandId
AllocateLowestFree(ms) ==
  LET free == CHOOSE j \in 1..(commandId + 1) :
                      /\ j \notin pendingCommands
                      /\ \A k \in 1..(j - 1) : k \in pendingCommands
      base == IF Len(ms) = 1 THEN free - 1 ELSE commandId
      n == IF base + Len(ms) > commandId THEN base + Len(ms) ELSE commandId
  IN /\ commandId' = n
     /\ pendingCommands' = pendingCommands \cup ((base + 1)..(base + Len(ms)))
     /\ sent' = [j \in 1..n |-> IF j \in (base + 1)..(base + Len(ms)) THEN ms[j - base]
                                                                      ELSE sent[j]]
     /\ futures' = [j \in 1..n |-> IF j \in (base + 1)..(base + Len(ms)) THEN PendingFuture
                                                                         ELSE futures[j]]

\* lines 111-127: allocate the next id, store the pending entry, pass the
\* command to the transport; n commands at once for n synchronous send() calls
Allocate(ms) ==
  /\ commandId' = commandId + Len(ms)
  /\ pendingCommands' = pendingCommands \cup ((commandId + 1)..(commandId + Len(ms)))
  /\ sent' = sent \o ms
  /\ futures' = futures \o [k \in 1..Len(ms) |-> PendingFuture]

RawCommand == [dom |-> "-", verb |-> "cmd"]

\* a send() without the closed check of lines 107-109
SendIgnoringClosed ==
  /\ Allocate(<<RawCommand>>)
  /\ UNCHANGED <<closed, domains, domainKeys, heap, connCloseCalls, closeSignalled,
                 domCalls, closeCalls, closedEmits, lastDone, evVars>>

\* send(method, params), lines 106-129
Send ==
  IF closed
  THEN /\ UNCHANGED <<cmdVars, evVars, peerVars>>
  ELSE /\ Allocate(<<RawCommand>>)
       /\ UNCHANGED <<closed, domains, domainKeys, heap, connCloseCalls, closeSignalled,
                      domCalls, closeCalls, closedEmits, lastDone, evVars>>

\* a response handler that ignores the id and settles the oldest unanswered
\* command: correlation by arrival order
OnResponseInOrder(i, out) ==
  /\ IF pendingCommands # {}
     THEN LET o == CHOOSE j \in pendingCommands : \A k \in pendingCommands : j <= k
          IN /\ pendingCommands' = pendingCommands \ {o}
             /\ futures' = [futures EXCEPT ![o] =
                              Settle(@, IF out = "error" THEN Rejected("protocol")
                                                         ELSE Resolved(out))]
     ELSE UNCHANGED <<pendingCommands, futures>>
  /\ UNCHANGED <<closed, domains, domainKeys, heap, commandId, sent, connCloseCalls,
                 closeSignalled, domCalls, closeCalls, closedEmits, lastDone, evVars>>

\* a response handler that takes an id without an entry for a protocol
\* failure and rejects every pending command
OnResponseUnknownRejectsAll(i, out) ==
  /\ IF i \in pendingCommands
     THEN /\ pendingCommands' = pendingCommands \ {i}
          /\ futures' = [futures EXCEPT ![i] =
                           Settle(@, IF out = "error" THEN Rejected("protocol")
                                                      ELSE Resolved(out))]
     ELSE /\ pendingCommands' = {}
          /\ futures' = [j \in 1..Len(futures) |->
                           IF j \in pendingCommands THEN Settle(futures[j], Rejected("protocol"))
                                                    ELSE futures[j]]
  /\ UNCHANGED <<closed, domains, domainKeys, heap, commandId, sent, connCloseCalls,
                 closeSignalled, domCalls, closeCalls, closedEmits, lastDone, evVars>>

\* the 'response' handler of setupConnectionHandlers
OnResponse(i, out) ==
  /\ IF i \in pendingCommands
     THEN /\ pendingCommands' = pendingCommands \ {i}
          /\ futures' = [futures EXCEPT ![i] =
                           Settle(@, IF out = "error" THEN Rejected("protocol")
                                                      ELSE Resolved(out))]
     ELSE UNCHANGED <<pendingCommands, futures>>
  /\ UNCHANGED <<closed, domains, domainKeys, heap, commandId, sent, connCloseCalls,
                 closeSignalled, domCalls, closeCalls, closedEmits, lastDone, evVars>>

\* connection.send(method, params).catch(reject): the transport's own send fails
TransportSendFails(i) ==
  /\ i \in 1..commandId
  /\ futures[i].st = "pending"
  /\ futures' = [futures EXCEPT ![i] = Rejected("transport")]
  /\ UNCHANGED <<closed, domains, domainKeys, heap, commandId, pendingCommands, sent,
                 connCloseCalls, closeSignalled, domCalls, closeCalls, closedEmits,
                 lastDone, evVars>>

\* the second wrapper after its constructor (lines 52-71)
InitPeer == peer = [closed |-> FALSE, commandId |-> 0, pendingCommands |-> {}, futures |-> <<>>]

\* send(method, params) of the second wrapper, lines 106-129: its ids come
\* from its own commandId counter
PeerSend ==
  IF peer.closed
  THEN UNCHANGED peer
  ELSE peer' = [peer EXCEPT !.commandId = @ + 1,
                            !.pendingCommands = @ \cup {peer.commandId + 1},
                            !.futures = Append(@, PendingFuture)]

\* the 'response' handler the second wrapper registered on the connection
\* (lines 85-95)
PeerOnResponse(i, out) ==
  IF i \in peer.pendingCommands
  THEN peer' = [peer EXCEPT !.pendingCommands = @ \ {i},
                            !.futures[i] = Settle(@, IF out = "error" THEN Rejected("protocol")
                                                                      ELSE Resolved(out))]
  ELSE UNCHANGED peer

\* the connection emits 'response': a CDPResponse carries an id and no
\* session id (types.ts:27-31), and every wrapper on the connection has a
\* listener for it
ConnectionResponse(i, out) == OnResponse(i, out) /\ PeerOnResponse(i, out)

(***************************************************************************)
(* CDPSessionWrapper: domains                                              *)
(***************************************************************************)
IsDomainEnabled(d) == domains[d] # 0 /\ heap[domains[d]]

DomainCommand(d, verb) == [dom |-> d, verb |-> verb]
DomainCall(o, d, c, ref) == [op |-> o, dom |-> d, cmd |-> c, state |-> ref]

\* enable(domain) up to its await
Enable(d) ==
  IF IsDomainEnabled(d)
  THEN /\ lastDone' = [lastDone EXCEPT ![d] = "enable"]
       /\ UNCHANGED <<closed, domains, domainKeys, heap, commandId, pendingCommands, sent,
                      futures, connCloseCalls, closeSignalled, domCalls, closeCalls,
                      closedEmits, evVars>>
  ELSE IF closed
  THEN \* send() throws, enable() logs and rethrows
       /\ UNCHANGED <<cmdVars, evVars, peerVars>>
  ELSE /\ Allocate(<<DomainCommand(d, "enable")>>)
       /\ domCalls' = domCalls \cup {DomainCall("enable", d, commandId + 1, 0)}
       /\ UNCHANGED <<closed, domains, domainKeys, heap, connCloseCalls, closeSignalled,
                      closeCalls, closedEmits, lastDone, evVars>>

\* an enable() that records the domain before it looks at the outcome of its
\* command
EnableDoneRecordsFirst(c) ==
  /\ c \in domCalls
  /\ c.op = "enable"
  /\ futures[c.cmd].st # "pending"
  /\ domCalls' = domCalls \ {c}
  /\ domains' = [domains EXCEPT ![c.dom] = c.cmd]
  /\ heap' = (c.cmd :> TRUE) @@ heap
  /\ domainKeys' = IF domains[c.dom] # 0 THEN domainKeys ELSE Append(domainKeys, c.dom)
  /\ IF futures[c.cmd].st = "resolved"
     THEN lastDone' = [lastDone EXCEPT ![c.dom] = "enable"]
     ELSE UNCHANGED lastDone
  /\ UNCHANGED <<closed, commandId, pendingCommands, sent, futures, connCloseCalls,
                 closeSignalled, closeCalls, closedEmits, evVars>>

\* how an enable()/disable() call that awaited its command ends
DomainCallResult(c) == IF futures[c.cmd].st = "resolved" THEN "ok" ELSE "throws"

\* enable(domain) after its await: lines 141-149
EnableDone(c) ==
  /\ c \in domCalls
  /\ c.op = "enable"
  /\ futures[c.cmd].st # "pending"
  /\ domCalls' = domCalls \ {c}
  /\ IF futures[c.cmd].st = "resolved"
     THEN /\ domains' = [domains EXCEPT ![c.dom] = c.cmd]
          /\ heap' = (c.cmd :> TRUE) @@ heap
          /\ domainKeys' = IF domains[c.dom] # 0 THEN domainKeys
                                                 ELSE Append(domainKeys, c.dom)
          /\ lastDone' = [lastDone EXCEPT ![c.dom] = "enable"]
     ELSE /\ UNCHANGED <<domains, heap, domainKeys, lastDone>>
  /\ UNCHANGED <<closed, commandId, pendingCommands, sent, futures, connCloseCalls,
                 closeSignalled, closeCalls, closedEmits, evVars>>

\* disable(domain) up to its await; state is the DomainState object it read
Disable(d) ==
  IF ~IsDomainEnabled(d)
  THEN /\ lastDone' = [lastDone EXCEPT ![d] = "disable"]
       /\ UNCHANGED <<closed, domains, domainKeys, heap, commandId, pendingCommands, sent,
                      futures, connCloseCalls, closeSignalled, domCalls, closeCalls,
                      closedEmits, evVars>>
  ELSE IF closed
  THEN /\ UNCHANGED <<cmdVars, evVars, peerVars>>
  ELSE /\ Allocate(<<DomainCommand(d, "disable")>>)
       /\ domCalls' = domCalls \cup {DomainCall("disable", d, commandId + 1, domains[d])}
       /\ UNCHANGED <<closed, domains, domainKeys, heap, connCloseCalls, closeSignalled,
                      closeCalls, closedEmits, lastDone, evVars>>

\* disable(domain) after its await: lines 163-168
DisableDone(c) ==
  /\ c \in domCalls
  /\ c.op = "disable"
  /\ futures[c.cmd].st # "pending"
  /\ domCalls' = domCalls \ {c}
  /\ IF futures[c.cmd].st = "resolved"
     THEN /\ heap' = [heap EXCEPT ![c.state] = FALSE]
          /\ lastDone' = [lastDone EXCEPT ![c.dom] = "disable"]
     ELSE /\ UNCHANGED <<heap, lastDone>>
  /\ UNCHANGED <<closed, domains, domainKeys, commandId, pendingCommands, sent, futures,
                 connCloseCalls, closeSignalled, closeCalls, closedEmits, evVars>>

(***************************************************************************)
(* CDPSessionWrapper: teardown                                             *)
(***************************************************************************)
\* how many elements of the handler sequence s get called when they are
\* called one after the other: an exception ends the loop
CalledOf(s) ==
  IF \E k \in 1..Len(s) : s[k] \in FailingHandlers
  THEN CHOOSE k \in 1..Len(s) : s[k] \in FailingHandlers /\ \A j \in 1..(k - 1) : s[j] \notin FailingHandlers
  ELSE Len(s)

\* emit(e, ...) throws: one of the listeners of e does
EmitThrows(e) == \E k \in 1..Len(listeners[e]) : listeners[e][k] \in FailingHandlers

ClosedCall(h) == [h |-> h, e |-> "closed", p |-> 0]

\* handleConnectionClosed(), lines 238-254; a 'closed' listener that throws
\* ends emit('closed') and removeAllListeners() is not reached
HandleConnectionClosed ==
  /\ closed' = TRUE
  /\ futures' = [i \in 1..Len(futures) |->
                   IF i \in pendingCommands THEN Settle(futures[i], Rejected("closed"))
                                            ELSE futures[i]]
  /\ pendingCommands' = {}
  /\ domains' = [d \in Domains |-> 0]
  /\ domainKeys' = <<>>
  /\ eventBuffer' = [e \in EventNames |-> <<>>]
  /\ eventHandlers' = [e \in EventNames |-> {}]
  /\ delivered' = [k \in 1..CalledOf(listeners["closed"]) |-> ClosedCall(listeners["closed"][k])]
  /\ closedEmits' = closedEmits + 1
  /\ listeners' = IF EmitThrows("closed") THEN listeners ELSE [e \in EventKeys |-> <<>>]

\* the domains close() disables: the enabled ones, in the Map's order
EnabledDomains == SelectSeq(domainKeys, IsDomainEnabled)

\* close() up to "await Promise.all(disablePromises)": every disable(domain)
\* runs up to its own await, so all the disable commands are sent here
Close ==
  IF closed
  THEN /\ UNCHANGED <<cmdVars, evVars, peerVars>>
  ELSE LET ds == EnabledDomains
           n == Len(ds)
       IN /\ Allocate([k \in 1..n |-> DomainCommand(ds[k], "disable")])
          /\ domCalls' = domCalls \cup
                {DomainCall("disable", ds[k], commandId + k, domains[ds[k]]) : k \in 1..n}
          /\ closeCalls' = Append(closeCalls,
                [pc |-> "disabling", kids |-> (commandId + 1)..(commandId + n)])
          /\ UNCHANGED <<closed, domains, domainKeys, heap, connCloseCalls, closeSignalled,
                         closedEmits, lastDone, evVars>>

RemoveAt(s, k) == [j \in 1..(Len(s) - 1) |-> IF j < k THEN s[j] ELSE s[j + 1]]

\* close(): every disable promise has settled; "await this.connection.close()"
CloseDisabled(k) ==
  /\ k \in 1..Len(closeCalls)
  /\ closeCalls[k].pc = "disabling"
  /\ \A c \in domCalls : c.cmd \notin closeCalls[k].kids
  /\ connCloseCalls' = connCloseCalls + 1
  /\ closeCalls' = [closeCalls EXCEPT ![k].pc = "closing"]
  /\ UNCHANGED <<closed, domains, domainKeys, heap, commandId, pendingCommands, sent,
                 futures, closeSignalled, domCalls, closedEmits, lastDone, evVars>>

\* a close() without the finally block: when connection.close() rejects the
\* call ends without handleConnectionClosed()
CloseFinishNoFinally(k, ok) ==
  /\ k \in 1..Len(closeCalls)
  /\ closeCalls[k].pc = "closing"
  /\ closeCalls' = RemoveAt(closeCalls, k)
  /\ IF ok
     THEN HandleConnectionClosed
     ELSE UNCHANGED <<closed, futures, pendingCommands, domains, domainKeys, eventBuffer,
                      eventHandlers, delivered, closedEmits, listeners>>
  /\ UNCHANGED <<heap, commandId, sent, connCloseCalls, closeSignalled, domCalls,
                 lastDone, produced>>

\* how close() ends: the rejections of disable() and connection.close() are
\* caught (lines 299, 305); only an exception of the finally block, which a
\* 'closed' listener can throw from emit('closed'), reaches the caller
CloseResult == IF EmitThrows("closed") THEN "throws" ELSE "ok"

\* close(): connection.close() settled (a rejection is logged); finally block
CloseFinish(k, ok) ==
  /\ k \in 1..Len(closeCalls)
  /\ closeCalls[k].pc = "closing"
  /\ HandleConnectionClosed
  /\ closeCalls' = RemoveAt(closeCalls, k)
  /\ UNCHANGED <<heap, commandId, sent, connCloseCalls, closeSignalled, domCalls,
                 lastDone, produced>>

\* the 'close' handler of setupConnectionHandlers
TransportClose ==
  /\ ~closeSignalled
  /\ closeSignalled' = TRUE
  /\ HandleConnectionClosed
  /\ UNCHANGED <<heap, commandId, sent, connCloseCalls, domCalls, closeCalls,
                 lastDone, produced>>

(***************************************************************************)
(* CDPSessionWrapper: events                                               *)
(***************************************************************************)
Call(h, e, p) == [h |-> h, e |-> e, p |-> p]

\* wrapper.on('closed', h): the wrapper is an EventEmitter (line 51)
OnClosed(h) ==
  /\ listeners' = [listeners EXCEPT !["closed"] = Append(@, h)]
  /\ UNCHANGED <<eventBuffer, eventHandlers, produced, delivered, cmdVars>>

\* EventEmitter.emit(e, p): the listeners of e are called in registration
\* order; a listener that throws ends the loop and emit throws
Emit(e, p) == [k \in 1..CalledOf(listeners[e]) |-> Call(listeners[e][k], e, p)]

\* a handleEvent that drops the arriving payload when the buffer is full
HandleEventKeepOldest(e, p) ==
  LET pushed == Append(eventBuffer[e], p)
  IN /\ eventBuffer' = [eventBuffer EXCEPT ![e] =
                          IF Len(pushed) > BufferLimit THEN eventBuffer[e] ELSE pushed]
     /\ delivered' = Emit(e, p)
     /\ UNCHANGED <<eventHandlers, listeners>>

\* handleEvent(event), lines 216-233; the payload is the event's number
HandleEvent(e, p) ==
  LET pushed == Append(eventBuffer[e], p)
  IN /\ eventBuffer' = [eventBuffer EXCEPT ![e] =
                          IF Len(pushed) > BufferLimit THEN Tail(pushed) ELSE pushed]
     /\ delivered' = Emit(e, p)
     /\ UNCHANGED <<eventHandlers, listeners>>

\* the 'event' handler of setupConnectionHandlers: the transport produces an
\* event tagged with a session id; the events of one name are numbered
OnEvent(e, sid) ==
  /\ IF sid = "self"
     THEN /\ produced' = [produced EXCEPT ![e] = @ + 1]
          /\ HandleEvent(e, produced[e] + 1)
     ELSE UNCHANGED evVars
  /\ UNCHANGED cmdVars

\* a subscribe that replays the buffer newest first
SubscribeNewestFirst(e, h) ==
  /\ eventHandlers' = [eventHandlers EXCEPT ![e] = @ \cup {h}]
  /\ delivered' = [k \in 1..Len(eventBuffer[e]) |->
                     Call(h, e, eventBuffer[e][Len(eventBuffer[e]) + 1 - k])]
  /\ listeners' = [listeners EXCEPT ![e] = Append(@, h)]
  /\ UNCHANGED <<eventBuffer, produced, cmdVars>>

\* the replay loop of subscribe throws (lines 189-193)
ReplayThrows(e, h) == h \in FailingHandlers /\ eventBuffer[e] # <<>>

\* subscribe(event, handler), lines 181-197; when the replay throws,
\* "this.on(event, handler)" is not reached
Subscribe(e, h) ==
  /\ eventHandlers' = [eventHandlers EXCEPT ![e] = @ \cup {h}]
  /\ IF ReplayThrows(e, h)
     THEN /\ delivered' = <<Call(h, e, eventBuffer[e][1])>>
          /\ UNCHANGED listeners
     ELSE /\ delivered' = [k \in 1..Len(eventBuffer[e]) |-> Call(h, e, eventBuffer[e][k])]
          /\ listeners' = [listeners EXCEPT ![e] = Append(@, h)]
  /\ UNCHANGED <<eventBuffer, produced, cmdVars>>

\* the index of the instance EventEmitter.off removes: the one added last
LastIndexOf(s, h) ==
  IF h \in Range(s) THEN CHOOSE k \in 1..Len(s) :
                            s[k] = h /\ \A j \in (k + 1)..Len(s) : s[j] # h
                    ELSE 0

\* unsubscribe(event, handler), lines 202-211
Unsubscribe(e, h) ==
  /\ eventHandlers' = [eventHandlers EXCEPT ![e] = @ \ {h}]
  /\ listeners' = [listeners EXCEPT ![e] =
                     IF LastIndexOf(@, h) = 0 THEN @ ELSE RemoveAt(@, LastIndexOf(@, h))]
  /\ UNCHANGED <<eventBuffer, produced, delivered, cmdVars>>

(***************************************************************************)
(* CDPManager and CDPSession (CDPManager.ts)                               *)
(***************************************************************************)
REQUIRED_DOMAINS ==
  <<"Runtime", "Network", "Page", "DOM", "CSS", "Console", "Performance", "Security", "Fetch">>

\* enableDomain rethrows for these (line 326)
CriticalDomains == {"Runtime", "Network", "Page"}

\* the commands initialize() awaits one after the other: the enable command
\* of each required domain, then Network.setCacheDisabled and Fetch.enable
NumInit == Len(REQUIRED_DOMAINS) + 2

\* an enableDomain that rethrows for every domain
ToleratedNever(k) == FALSE

\* a failure of command k is only warned about
Tolerated(k) == k <= Len(REQUIRED_DOMAINS) /\ REQUIRED_DOMAINS[k] \notin CriticalDomains

InitManager ==
  /\ sessions = {}
  /\ pageToSessionMap = [p \in Pages |-> 0]
  /\ sess = <<>>
  /\ attachCalls = <<>>
  /\ detachCalls = <<>>
  /\ closeAllCall = [pc |-> "idle", waits |-> {}, targets |-> {}]
  /\ returned = [p \in Pages |-> {}]
  /\ pageState = [p \in Pages |-> [closed |-> FALSE, hooks |-> 0]]

\* new CDPSession(page, client), lines 286-291
NewSession(p) ==
  [page |-> p, closed |-> FALSE, closePc |-> "open", init |-> "created", step |-> 0,
   listening |-> FALSE, live |-> TRUE, out |-> 0, net |-> 0, con |-> 0,
   dis |-> 0, subs |-> 0, notified |-> 0, notes |-> 0]

\* initialize() from command j on, for a session whose closed flag is c: send()
\* throws at once on a closed session (line 455), which enableDomain tolerates
\* for an auxiliary domain; otherwise command j is passed to the client and awaited
RECURSIVE StartInit(_, _)
StartInit(j, c) ==
  IF j > NumInit THEN [init |-> "ready", step |-> j]
  ELSE IF ~c THEN [init |-> "running", step |-> j]
  ELSE IF Tolerated(j) THEN StartInit(j + 1, c)
  ELSE [init |-> "failed", step |-> j]

\* setupEventListeners() has run once the domain loop is over (line 304)
Listens(st) == st.step > Len(REQUIRED_DOMAINS)

\* step is the command initialize() awaits; 0 once it has thrown
WithInit(s, st) ==
  [s EXCEPT !.init = st.init,
            !.step = IF st.init = "failed" THEN 0 ELSE st.step,
            !.listening = @ \/ Listens(st)]

\* CDPSession.close() up to its first await: the call that finds the session
\* open sets closed at once (line 540)
BeginClose(s) == IF s.closed THEN s ELSE [s EXCEPT !.closed = TRUE, !.closePc = "disabling"]

\* getSession(page), lines 157-159
GetSession(p) == pageToSessionMap[p]

\* an attachToPage check without "!existing.isClosed()"
ExistingAny(p) == pageToSessionMap[p]

\* lines 105-108: what attachToPage(p) returns when it returns at once (0: it
\* goes on to create a session)
ExistingOpen(p) ==
  IF pageToSessionMap[p] # 0 /\ ~sess[pageToSessionMap[p]].closed THEN pageToSessionMap[p] ELSE 0

\* attachToPage(page) up to "await page.context().newCDPSession(page)"
AttachToPage(p) ==
  LET existing == ExistingOpen(p)
  IN IF existing # 0
     THEN /\ returned' = [returned EXCEPT ![p] = @ \cup {existing}]
          /\ UNCHANGED <<sessions, pageToSessionMap, sess, attachCalls, detachCalls,
                         closeAllCall, pageState>>
     ELSE /\ attachCalls' = Append(attachCalls, [page |-> p, pc |-> "newCDPSession", sid |-> 0])
          /\ UNCHANGED <<sessions, pageToSessionMap, sess, detachCalls, closeAllCall, pageState,
                         returned>>

\* attachToPage: newCDPSession settled; lines 115-122 up to the first await of
\* initialize()
AttachCreated(k, ok) ==
  /\ k \in 1..Len(attachCalls)
  /\ attachCalls[k].pc = "newCDPSession"
  /\ IF ok
     THEN LET sid == Len(sess) + 1
              p == attachCalls[k].page
          IN /\ sess' = Append(sess, WithInit(NewSession(p), StartInit(1, FALSE)))
             /\ sessions' = sessions \cup {sid}
             /\ pageToSessionMap' = [pageToSessionMap EXCEPT ![p] = sid]
             /\ attachCalls' = [attachCalls EXCEPT ![k] = [@ EXCEPT !.pc = "initialize", !.sid = sid]]
     ELSE /\ attachCalls' = RemoveAt(attachCalls, k)
          /\ UNCHANGED <<sess, sessions, pageToSessionMap>>
  /\ UNCHANGED <<detachCalls, closeAllCall, pageState, returned>>

\* an initialize() that has the next command under way before the awaited one
\* is answered
InitAnswerPipelined(sid, ok) ==
  /\ sid \in 1..Len(sess)
  /\ sess[sid].init = "running"
  /\ LET s == sess[sid]
         st == IF ok \/ Tolerated(s.step) THEN StartInit(s.step + 2, s.closed)
                                          ELSE [init |-> "failed", step |-> s.step]
     IN sess' = [sess EXCEPT ![sid] = WithInit(s, st)]
  /\ UNCHANGED <<sessions, pageToSessionMap, attachCalls, detachCalls, closeAllCall, pageState,
                 returned>>

\* initialize(): the client settles the command the session awaits
InitAnswer(sid, ok) ==
  /\ sid \in 1..Len(sess)
  /\ sess[sid].init = "running"
  /\ LET s == sess[sid]
         st == IF ok \/ Tolerated(s.step) THEN StartInit(s.step + 1, s.closed)
                                          ELSE [init |-> "failed", step |-> s.step]
     IN sess' = [sess EXCEPT ![sid] = WithInit(s, st)]
  /\ UNCHANGED <<sessions, pageToSessionMap, attachCalls, detachCalls, closeAllCall, pageState,
                 returned>>

\* attachToPage after "await session.initialize()": lines 124-137
AttachFinish(k) ==
  /\ k \in 1..Len(attachCalls)
  /\ attachCalls[k].pc = "initialize"
  /\ sess[attachCalls[k].sid].init \in {"ready", "failed"}
  /\ attachCalls' = RemoveAt(attachCalls, k)
  /\ LET c == attachCalls[k]
     IN IF sess[c.sid].init = "ready"
        THEN \* page.once('close', ...), lines 128-130
             /\ pageState' = [pageState EXCEPT ![c.page].hooks = @ + 1]
             /\ returned' = [returned EXCEPT ![c.page] = @ \cup {c.sid}]
        ELSE /\ UNCHANGED <<returned, pageState>>
  /\ UNCHANGED <<sessions, pageToSessionMap, sess, detachCalls, closeAllCall>>

\* detachFromPage(page) up to "await session.close()"
DetachFromPage(p) ==
  LET sid == pageToSessionMap[p]
  IN /\ returned' = [returned EXCEPT ![p] = {}]
     /\ IF sid = 0
        THEN /\ UNCHANGED <<sess, detachCalls>>
        ELSE /\ sess' = [sess EXCEPT ![sid] = BeginClose(@)]
             /\ detachCalls' = Append(detachCalls,
                                  [page |-> p, sid |-> sid, wait |-> ~sess[sid].closed])
     /\ UNCHANGED <<sessions, pageToSessionMap, attachCalls, closeAllCall, pageState>>

\* the page emits 'close': every listener page.once('close') installed
\* (lines 128-130) runs once and calls detachFromPage(page), which runs up to
\* its "await session.close()"; the first call starts the close, the others
\* find the session closed
PageClose(p) ==
  LET sid == pageToSessionMap[p]
      n == pageState[p].hooks
  IN /\ ~pageState[p].closed
     /\ pageState' = [pageState EXCEPT ![p] = [closed |-> TRUE, hooks |-> 0]]
     /\ IF n = 0
        THEN UNCHANGED <<sess, detachCalls, returned>>
        ELSE /\ returned' = [returned EXCEPT ![p] = {}]
             /\ IF sid = 0
                THEN UNCHANGED <<sess, detachCalls>>
                ELSE /\ sess' = [sess EXCEPT ![sid] = BeginClose(@)]
                     /\ detachCalls' = detachCalls \o
                           [j \in 1..n |-> [page |-> p, sid |-> sid,
                                            wait |-> j = 1 /\ ~sess[sid].closed]]
     /\ UNCHANGED <<sessions, pageToSessionMap, attachCalls, closeAllCall>>

\* a detachFromPage that forgets "this.sessions.delete(session.id)"
DetachDoneKeepsId(k) ==
  /\ k \in 1..Len(detachCalls)
  /\ LET c == detachCalls[k]
     IN /\ c.wait => sess[c.sid].closePc = "done"
        /\ pageToSessionMap' = [pageToSessionMap EXCEPT ![c.page] = 0]
        /\ returned' = [returned EXCEPT ![c.page] = {}]
        /\ sess' = [sess EXCEPT ![c.sid].notes = @ + 1]
  /\ detachCalls' = RemoveAt(detachCalls, k)
  /\ UNCHANGED <<sessions, attachCalls, closeAllCall, pageState>>

\* what detachFromPage(p) does: nothing when the page has no session (line 146)
DetachOutcome(p) == IF GetSession(p) = 0 THEN "noop" ELSE "started"

\* the notification detachFromPage emits when it completes (line 150)
DetachEmits(k) == [event |-> "sessionClosed", sessionId |-> detachCalls[k].sid]

\* detachFromPage after the await: lines 148-150; notes counts the
\* 'sessionClosed' notifications emitted for the session (line 150)
DetachDone(k) ==
  /\ k \in 1..Len(detachCalls)
  /\ LET c == detachCalls[k]
     IN /\ c.wait => sess[c.sid].closePc = "done"
        /\ sessions' = sessions \ {c.sid}
        /\ pageToSessionMap' = [pageToSessionMap EXCEPT ![c.page] = 0]
        /\ returned' = [returned EXCEPT ![c.page] = {}]
        /\ sess' = [sess EXCEPT ![c.sid].notes = @ + 1]
  /\ detachCalls' = RemoveAt(detachCalls, k)
  /\ UNCHANGED <<attachCalls, closeAllCall, pageState>>

\* closeAll() up to "await Promise.all(closePromises)"
CloseAll ==
  /\ closeAllCall.pc = "idle"
  /\ sess' = [i \in 1..Len(sess) |-> IF i \in sessions THEN BeginClose(sess[i]) ELSE sess[i]]
  /\ closeAllCall' = [pc |-> "awaiting",
                      waits |-> {i \in sessions : ~sess[i].closed},
                      targets |-> {p \in Pages : pageToSessionMap[p] # 0}]
  /\ UNCHANGED <<sessions, pageToSessionMap, attachCalls, detachCalls, returned, pageState>>

\* closeAll() after the await: lines 246-247
CloseAllDone ==
  /\ closeAllCall.pc = "awaiting"
  /\ \A i \in closeAllCall.waits : sess[i].closePc = "done"
  /\ sessions' = {}
  /\ closeAllCall' = [closeAllCall EXCEPT !.pc = "idle", !.waits = {}]
  /\ UNCHANGED <<pageToSessionMap, sess, attachCalls, detachCalls, returned, pageState>>

\* CDPSession.close() called by the holder of a session
SessionClose(sid) ==
  /\ sid \in 1..Len(sess)
  /\ sess' = [sess EXCEPT ![sid] = BeginClose(@)]
  /\ UNCHANGED <<sessions, pageToSessionMap, attachCalls, detachCalls, closeAllCall, pageState,
                 returned>>

\* CDPSession.send(): how the call starts, lines 455-457
SessionSendResult(sid) == IF sess[sid].closed THEN "throws" ELSE "pending"

\* CDPSession.close(), lines 544-549: the loop calls this.send('<domain>.disable')
\* for each required domain and swallows a rejection; dis counts the disable
\* commands that reach the client.  Then client.detach()
SessionCloseDetach(sid) ==
  /\ sid \in 1..Len(sess)
  /\ sess[sid].closePc = "disabling"
  /\ sess' = [sess EXCEPT ![sid] =
                [@ EXCEPT !.closePc = "detaching",
                          !.dis = IF SessionSendResult(sid) = "throws"
                                  THEN 0 ELSE Len(REQUIRED_DOMAINS)]]
  /\ UNCHANGED <<sessions, pageToSessionMap, attachCalls, detachCalls, closeAllCall, pageState,
                 returned>>

\* CDPSession.close(), lines 550-561: client.detach() settled.  A detach that
\* succeeds makes the client reject the commands it has not answered; one
\* that fails (logged, line 551) leaves them with the client
SessionCloseDone(sid, ok) ==
  /\ sid \in 1..Len(sess)
  /\ sess[sid].closePc = "detaching"
  /\ LET cleared == [sess[sid] EXCEPT !.closePc = "done", !.net = 0, !.con = 0,
                                       !.live = IF ok THEN FALSE ELSE @,
                                       !.out = IF ok THEN 0 ELSE @,
                                       !.subs = 0]
     IN \* this.removeAllListeners() (line 559), then this.emit('closed') (line 561)
        sess' = [sess EXCEPT ![sid] = [cleared EXCEPT !.notified = @ + cleared.subs]]
  /\ UNCHANGED <<sessions, pageToSessionMap, attachCalls, detachCalls, closeAllCall, pageState,
                 returned>>

\* session.on('closed', listener): CDPSession is an EventEmitter (line 276);
\* subs counts the 'closed' listeners, notified the calls they got
SessionOn(sid) ==
  /\ sid \in 1..Len(sess)
  /\ sess' = [sess EXCEPT ![sid].subs = @ + 1]
  /\ UNCHANGED <<sessions, pageToSessionMap, attachCalls, detachCalls, closeAllCall, pageState,
                 returned>>

\* how CDPSession.close() and closeAll() end: the teardown of close() runs in
\* a try/catch that logs (lines 543-552) and closeAll() catches every
\* close() promise (line 241)
SessionCloseResult == "ok"
CloseAllResult == "ok"

\* CDPSession.send(method, params), lines 454-468
SessionSend(sid) ==
  /\ sid \in 1..Len(sess)
  /\ IF sess[sid].closed
     THEN /\ UNCHANGED sess
     ELSE /\ sess' = [sess EXCEPT ![sid].out = @ + 1]
  /\ UNCHANGED <<sessions, pageToSessionMap, attachCalls, detachCalls, closeAllCall, pageState,
                 returned>>

\* the client settles a command of the session (result or error)
ClientAnswer(sid) ==
  /\ sid \in 1..Len(sess)
  /\ sess[sid].out > 0
  /\ sess' = [sess EXCEPT ![sid].out = @ - 1]
  /\ UNCHANGED <<sessions, pageToSessionMap, attachCalls, detachCalls, closeAllCall, pageState,
                 returned>>

\* setupEventListeners: the client.on handlers that fill networkRequests
\* (line 341) and consoleMessages (lines 388, 396); close() never removes them
ClientEvent(sid, kind) ==
  /\ sid \in 1..Len(sess)
  /\ sess[sid].listening
  /\ sess[sid].live
  /\ sess' = [sess EXCEPT ![sid] =
                IF kind = "network" THEN [@ EXCEPT !.net = @ + 1] ELSE [@ EXCEPT !.con = @ + 1]]
  /\ UNCHANGED <<sessions, pageToSessionMap, attachCalls, detachCalls, closeAllCall, pageState,
                 returned>>

\* a getNetworkData without the "if (!session)" guard
GetNetworkDataUnguarded(p) ==
  IF GetSession(p) = 0 THEN [res |-> "throws", n |-> 0]
                       ELSE [res |-> "ok", n |-> sess[GetSession(p)].net]

\* getNetworkData(page), lines 253-259: how it ends and the size of the result
GetNetworkData(p) ==
  IF GetSession(p) = 0 THEN [res |-> "ok", n |-> 0]
                       ELSE [res |-> "ok", n |-> sess[GetSession(p)].net]

\* getConsoleMessages(page), lines 264-270
GetConsoleMessages(p) ==
  IF GetSession(p) = 0 THEN [res |-> "ok", n |-> 0]
                       ELSE [res |-> "ok", n |-> sess[GetSession(p)].con]

\* the accessors change nothing
Query(p, kind) == UNCHANGED mgrVars

QueryResult(p, kind) == IF kind = "network" THEN GetNetworkData(p) ELSE GetConsoleMessages(p)

\* send(): how the call ends, lines 107-109 and 116
SendResult == IF closed THEN "throws" ELSE "pending"

(***************************************************************************)
(* Specifications.  Each one drives the session with the operations and    *)
(* the input bounds of one group of properties; lastOp records the         *)
(* operation a step ran.                                                   *)
(***************************************************************************)
Init == InitWrapper /\ InitManager /\ InitPeer

Did(o, i, r, h) == lastOp' = Op(o, i, r, h) /\ UNCHANGED <<mgrVars, peerVars>>
Silent == UNCHANGED <<lastOp, mgrVars, peerVars>>

\* ---- command correlation: send, responses, transport failures, close
NextCorr ==
  \/ /\ closed \/ commandId < MaxCmd
     /\ Send
     /\ Did("send", IF closed THEN 0 ELSE commandId + 1, "-", "-")
  \/ \E i \in 1..MaxCmd, out \in Outcomes :
        OnResponse(i, out) /\ Did("response", i, out, "-")
  \/ \E i \in 1..MaxCmd : TransportSendFails(i) /\ Did("sendFailed", i, "-", "-")
  \/ /\ closed \/ Len(closeCalls) < MaxCloseCalls
     /\ Close
     /\ Did("close", 0, IF closed THEN "noop" ELSE "started", "-")
  \/ \E k \in 1..MaxCloseCalls : CloseDisabled(k) /\ Did("closeConnection", 0, "-", "-")
  \/ \E k \in 1..MaxCloseCalls, ok \in BOOLEAN :
        CloseFinish(k, ok) /\ Did("closeDone", 0, "-", "-")
  \/ TransportClose /\ Did("transportClose", 0, "-", "-")

SpecCorr == Init /\ [][NextCorr]_vars

\* ---- two wrappers on one connection: each sends commands, the connection
\* answers with any id
NextShared ==
  /\ UNCHANGED mgrVars
  /\ \/ /\ commandId < MaxSharedCmd
        /\ Send
        /\ lastOp' = Op("send", commandId + 1, "-", "-")
        /\ UNCHANGED peerVars
     \/ /\ peer.commandId < MaxSharedCmd
        /\ PeerSend
        /\ lastOp' = Op("peerSend", peer.commandId + 1, "-", "-")
        /\ UNCHANGED <<cmdVars, evVars>>
     \/ \E i \in 1..MaxSharedCmd, out \in Outcomes :
           /\ ConnectionResponse(i, out)
           /\ lastOp' = Op("response", i, out, "-")

SpecShared == Init /\ [][NextShared]_vars

\* ---- domains: enable, disable, close
NextDom ==
  \/ \E d \in DomDomains : (closed \/ IsDomainEnabled(d) \/ commandId < MaxDomCmd)
                        /\ Enable(d) /\ Silent
  \/ \E c \in domCalls : EnableDone(c) /\ Silent
  \/ \E d \in DomDomains : (closed \/ ~IsDomainEnabled(d) \/ commandId < MaxDomCmd)
                        /\ Disable(d) /\ Silent
  \/ \E c \in domCalls : DisableDone(c) /\ Silent
  \/ \E i \in 1..MaxDomCmd, out \in DomOutcomes : OnResponse(i, out) /\ Silent
  \/ /\ closed \/ (/\ Len(closeCalls) < MaxCloseCalls
                   /\ commandId + Len(EnabledDomains) <= MaxDomCmd)
     /\ Close
     /\ Silent
  \/ \E k \in 1..MaxCloseCalls : CloseDisabled(k) /\ Silent
  \/ \E k \in 1..MaxCloseCalls, ok \in BOOLEAN : CloseFinish(k, ok) /\ Silent
  \/ TransportClose /\ Silent

SpecDom == Init /\ [][NextDom]_vars

\* the steps the event loop takes by itself: the continuation of an
\* enable(), disable() or close() call whose awaited promise has settled, and
\* the settling of connection.close().  Responses to commands and the
\* transport's 'close' signal are the transport's to give or withhold
DomContinuation ==
  /\ \/ \E c \in domCalls : EnableDone(c)
     \/ \E c \in domCalls : DisableDone(c)
     \/ \E k \in 1..MaxCloseCalls : CloseDisabled(k)
     \/ \E k \in 1..MaxCloseCalls, ok \in BOOLEAN : CloseFinish(k, ok)
  /\ Silent

SpecDomFair == SpecDom /\ WF_vars(DomContinuation)

\* ---- the event buffer at its limit
BufHandlers == {"h1"}
TotalProduced == produced["Network.requestWillBeSent"] + produced["Page.loadEventFired"]

NextBuf ==
  \/ \E e \in EventNames, sid \in SessionIds :
        /\ TotalProduced < MaxBufEvents
        /\ OnEvent(e, sid)
        /\ Did("event", IF sid = "self" THEN produced[e] + 1 ELSE 0, e, "-")
  \/ \E e \in EventNames, h \in BufHandlers :
        /\ Len(listeners[e]) < MaxBufListeners
        /\ Subscribe(e, h)
        /\ Did("subscribe", 0, e, h)

SpecBuf == Init /\ [][NextBuf]_vars

\* ---- the registry: attach, detach, closeAll, close, commands
Obs(o, i, r, h) == lastOp' = Op(o, i, r, h)
Quiet == lastOp' = Op("-", 0, "-", "-")

MgrPages == {"p1"}

\* attachToPage, initialize and detachFromPage on the pages P, with at most n
\* attachToPage calls and nd detachFromPage calls in flight, m sessions created,
\* and the client's answers to the commands of initialize() drawn from A
Lifecycle(P, n, nd, m, A) ==
  \/ \E p \in P :
        /\ ExistingOpen(p) # 0 \/ Len(attachCalls) < n
        /\ AttachToPage(p)
        /\ IF ExistingOpen(p) # 0 THEN Obs("attach", ExistingOpen(p), "existing", p) ELSE Quiet
  \/ \E k \in 1..n, ok \in BOOLEAN :
        (ok => Len(sess) < m) /\ AttachCreated(k, ok) /\ Quiet
  \/ \E sid \in 1..MaxSessions, ok \in A : InitAnswer(sid, ok) /\ Quiet
  \/ \E k \in 1..n :
        /\ AttachFinish(k)
        /\ IF sess[attachCalls[k].sid].init = "ready"
           THEN Obs("attach", attachCalls[k].sid, "created", attachCalls[k].page)
           ELSE Obs("attachThrows", attachCalls[k].sid, "-", attachCalls[k].page)
  \/ \E p \in P : Len(detachCalls) < nd /\ DetachFromPage(p) /\ Quiet
  \/ \E k \in 1..nd :
        DetachDone(k) /\ Obs("detachDone", detachCalls[k].sid, "-", detachCalls[k].page)
  \/ \E sid \in 1..MaxSessions : SessionCloseDetach(sid) /\ Quiet
  \/ \E sid \in 1..MaxSessions, ok \in BOOLEAN : SessionCloseDone(sid, ok) /\ Quiet

\* ---- attach and detach of one page, attachToPage calls overlapping
NextAttach == UNCHANGED <<cmdVars, evVars, peerVars>> /\ Lifecycle(MgrPages, MaxCalls, MaxDetach, MaxSessions, BOOLEAN)

SpecAttach == Init /\ [][NextAttach]_vars

\* ---- bring-up: attachToPage calls on two pages, the client answering each
\* command of initialize() with a result or an error; no session is closed
NextInit ==
  /\ UNCHANGED <<cmdVars, evVars, peerVars>>
  /\ \/ \E p \in Pages :
           /\ ExistingOpen(p) # 0 \/ Len(attachCalls) < MaxInitCalls
           /\ AttachToPage(p)
           /\ IF ExistingOpen(p) # 0 THEN Obs("attach", ExistingOpen(p), "existing", p)
                                     ELSE Quiet
     \/ \E k \in 1..MaxInitCalls, ok \in BOOLEAN :
           (ok => Len(sess) < MaxInitSessions) /\ AttachCreated(k, ok) /\ Quiet
     \/ \E sid \in 1..MaxInitSessions, ok \in BOOLEAN :
           /\ InitAnswer(sid, ok)
           /\ Obs("initAnswer", sid, IF ok THEN "ok" ELSE "error", "-")
     \/ \E k \in 1..MaxInitCalls :
           /\ AttachFinish(k)
           /\ IF sess[attachCalls[k].sid].init = "ready"
              THEN Obs("attach", attachCalls[k].sid, "created", attachCalls[k].page)
              ELSE Obs("attachThrows", attachCalls[k].sid, "-", attachCalls[k].page)

SpecInit == Init /\ [][NextInit]_vars

\* ---- teardown: closeAll, close, commands in flight (the client answers the
\* commands of initialize() with a result)
NextMgr ==
  /\ UNCHANGED <<cmdVars, evVars, peerVars>>
  /\ \/ Lifecycle(MgrPages, MaxSeqCalls, MaxDetach, MaxSessions, {TRUE})
     \/ CloseAll /\ Quiet
     \/ CloseAllDone /\ Obs("closeAllDone", 0, "-", "-")
     \/ \E sid \in 1..MaxSessions : SessionClose(sid) /\ Quiet
     \/ \E sid \in 1..MaxSessions :
           /\ sid \in 1..Len(sess)
           /\ sess[sid].closed \/ sess[sid].out < MaxOutstanding
           /\ SessionSend(sid)
           /\ Quiet
     \/ \E sid \in 1..MaxSessions : ClientAnswer(sid) /\ Quiet

SpecMgr == Init /\ [][NextMgr]_vars

\* ---- the registry's accessors: a caller that awaits each attachToPage and
\* detachFromPage, client events, queries
DataKinds == {"network", "console"}

NextData ==
  /\ UNCHANGED <<cmdVars, evVars, peerVars>>
  /\ \/ Lifecycle(Pages, 1, 1, MaxDataSessions, {TRUE})
     \/ \E sid \in 1..MaxSessions, kind \in DataKinds :
           /\ sid \in 1..Len(sess)
           /\ (IF kind = "network" THEN sess[sid].net ELSE sess[sid].con) < MaxData
           /\ ClientEvent(sid, kind)
           /\ Quiet
     \/ \E p \in Pages, kind \in DataKinds :
           /\ Query(p, kind)
           /\ Obs(IF kind = "network" THEN "getNetworkData" ELSE "getConsoleMessages",
                  QueryResult(p, kind).n, QueryResult(p, kind).res, p)

SpecData == Init /\ [][NextData]_vars

\* ---- lifetime of a session of either class.  The two classes share no
\* state: a behaviour drives the wrapper session or the registry's sessions.
ManagerOps == {"-", "attach", "attachThrows", "sessionClose", "sessionSend"}

LifeEvents == {"Network.requestWillBeSent"}

\* a step of the wrapper other than send()
Step == Did("step", 0, "-", "-")

NextLifeWrapper ==
  \/ /\ closed \/ commandId < MaxLifeCmd
     /\ Send
     /\ Did("send", IF closed THEN 0 ELSE commandId + 1, SendResult, "-")
  \/ \E i \in 1..MaxLifeCmd, out \in DomOutcomes :
        OnResponse(i, out) /\ Step
  \/ \E d \in DomDomains :
        /\ closed \/ IsDomainEnabled(d) \/ commandId < MaxLifeCmd
        /\ Enable(d)
        /\ Step
  \/ \E c \in domCalls : EnableDone(c) /\ Step
  \/ \E d \in DomDomains :
        /\ closed \/ ~IsDomainEnabled(d) \/ commandId < MaxLifeCmd
        /\ Disable(d)
        /\ Step
  \/ \E c \in domCalls : DisableDone(c) /\ Step
  \/ /\ closed \/ (closeCalls = <<>> /\ commandId + Len(EnabledDomains) <= MaxLifeCmd)
     /\ Close
     /\ Step
  \/ \E k \in 1..MaxCloseCalls : CloseDisabled(k) /\ Step
  \/ \E k \in 1..MaxCloseCalls, ok \in BOOLEAN :
        CloseFinish(k, ok) /\ Step
  \/ TransportClose /\ Step
  \/ \E e \in LifeEvents :
        /\ produced[e] < MaxLifeEvents
        /\ OnEvent(e, "self")
        /\ Step
  \/ \E e \in LifeEvents, h \in BufHandlers :
        /\ Len(listeners[e]) < MaxLifeListeners
        /\ Subscribe(e, h)
        /\ Step

NextLifeManager ==
  /\ UNCHANGED <<cmdVars, evVars, peerVars>>
  /\ \/ \E p \in MgrPages :
           /\ ExistingOpen(p) # 0 \/ attachCalls = <<>>
           /\ AttachToPage(p)
           /\ IF ExistingOpen(p) # 0 THEN Obs("attach", ExistingOpen(p), "existing", p)
                                     ELSE Quiet
     \/ \E ok \in BOOLEAN : (ok => Len(sess) < MaxLifeSessions) /\ AttachCreated(1, ok) /\ Quiet
     \/ \E sid \in 1..MaxLifeSessions : InitAnswer(sid, TRUE) /\ Quiet
     \/ /\ AttachFinish(1)
        /\ IF sess[attachCalls[1].sid].init = "ready"
           THEN Obs("attach", attachCalls[1].sid, "created", attachCalls[1].page)
           ELSE Obs("attachThrows", attachCalls[1].sid, "-", attachCalls[1].page)
     \/ \E sid \in 1..MaxLifeSessions : SessionClose(sid) /\ Obs("sessionClose", sid, "-", "-")
     \/ \E sid \in 1..MaxLifeSessions : SessionCloseDetach(sid) /\ Quiet
     \/ \E sid \in 1..MaxLifeSessions, ok \in BOOLEAN : SessionCloseDone(sid, ok) /\ Quiet
     \/ \E sid \in 1..MaxLifeSessions :
           /\ sid \in 1..Len(sess)
           /\ sess[sid].closed
           /\ SessionSend(sid)
           /\ Obs("sessionSend", sid, SessionSendResult(sid), "-")

\* the first step chooses the object
NextLife ==
  \/ lastOp.op \notin ManagerOps /\ NextLifeWrapper
  \/ lastOp.op \in ManagerOps \cup {"init"} /\ NextLifeManager

SpecLife == Init /\ [][NextLife]_vars

\* ---- failing domain commands: error responses, transport send failures,
\* the transport's close signal
NextFail ==
  \/ \E d \in DomDomains :
        /\ closed \/ IsDomainEnabled(d) \/ commandId < MaxDomCmd
        /\ Enable(d)
        /\ Did("enable", 0, IF IsDomainEnabled(d) THEN "ok" ELSE SendResult, d)
  \/ \E c \in domCalls : EnableDone(c) /\ Did("enableDone", c.cmd, DomainCallResult(c), c.dom)
  \/ \E d \in DomDomains :
        /\ closed \/ ~IsDomainEnabled(d) \/ commandId < MaxDomCmd
        /\ Disable(d)
        /\ Did("disable", 0, IF ~IsDomainEnabled(d) THEN "ok" ELSE SendResult, d)
  \/ \E c \in domCalls : DisableDone(c) /\ Did("disableDone", c.cmd, DomainCallResult(c), c.dom)
  \/ \E i \in 1..MaxDomCmd, out \in DomOutcomes : OnResponse(i, out) /\ Step
  \/ \E i \in 1..MaxDomCmd : TransportSendFails(i) /\ Step
  \/ TransportClose /\ Step

SpecFail == Init /\ [][NextFail]_vars

\* ---- delivery of events to handlers: subscribe, unsubscribe, events;
\* handler h3 throws
\* what the transport's emit of the event gets back from the 'event' listener
EventResult(e) == IF EmitThrows(e) THEN "throws" ELSE "ok"

NextDeliver ==
  \/ \E e \in LifeEvents :
        /\ produced[e] < MaxDeliverEvents
        /\ OnEvent(e, "self")
        /\ Did("event", produced[e] + 1, e, EventResult(e))
  \/ \E e \in LifeEvents, h \in Handlers :
        /\ Len(listeners[e]) < MaxDeliverListeners
        /\ Subscribe(e, h)
        /\ Did("subscribe", 0, e, h)
  \/ \E e \in LifeEvents, h \in Handlers :
        Unsubscribe(e, h) /\ Did("unsubscribe", 0, e, h)

SpecDeliver == Init /\ [][NextDeliver]_vars

\* ---- one page: attachToPage, detachFromPage and the page's 'close' event.
\* newCDPSession and the commands of initialize() fail on a page that has closed
HookAttach ==
  \E p \in MgrPages :
     /\ ExistingOpen(p) # 0 \/ Len(attachCalls) < MaxHookCalls
     /\ AttachToPage(p)
     /\ IF ExistingOpen(p) # 0 THEN Obs("attach", ExistingOpen(p), "existing", p)
                               ELSE Quiet

HookCreated ==
  \E k \in 1..MaxHookCalls, ok \in BOOLEAN :
     /\ k \in 1..Len(attachCalls)
     /\ ok => (Len(sess) < MaxHookSessions /\ ~pageState[attachCalls[k].page].closed)
     /\ AttachCreated(k, ok)
     /\ Quiet

HookInitAnswer ==
  \E sid \in 1..MaxHookSessions, ok \in BOOLEAN :
     /\ sid \in 1..Len(sess)
     /\ ok => ~pageState[sess[sid].page].closed
     /\ InitAnswer(sid, ok)
     /\ Quiet

HookAttachFinish ==
  \E k \in 1..MaxHookCalls :
     /\ AttachFinish(k)
     /\ IF sess[attachCalls[k].sid].init = "ready"
        THEN Obs("attach", attachCalls[k].sid, "created", attachCalls[k].page)
        ELSE Obs("attachThrows", attachCalls[k].sid, "-", attachCalls[k].page)

HookDetach ==
  \E p \in MgrPages :
     /\ GetSession(p) = 0 \/ Len(detachCalls) < MaxHookDetach
     /\ DetachFromPage(p)
     /\ Obs("detach", GetSession(p), DetachOutcome(p), p)

HookDetachDone ==
  \E k \in 1..(MaxHookDetach + MaxHookSessions) :
     /\ DetachDone(k)
     /\ Obs("detachDone", DetachEmits(k).sessionId, DetachEmits(k).event,
            detachCalls[k].page)

HookPageClose == \E p \in MgrPages : PageClose(p) /\ Obs("pageClose", GetSession(p), "-", p)

HookCloseDetach == \E sid \in 1..MaxHookSessions : SessionCloseDetach(sid) /\ Quiet

HookCloseDone ==
  \E sid \in 1..MaxHookSessions, ok \in BOOLEAN : SessionCloseDone(sid, ok) /\ Quiet

NextDetach ==
  /\ UNCHANGED <<cmdVars, evVars, peerVars>>
  /\ \/ HookAttach
     \/ HookCreated
     \/ HookInitAnswer
     \/ HookAttachFinish
     \/ HookDetach
     \/ HookDetachDone
     \/ HookPageClose
     \/ HookCloseDetach
     \/ HookCloseDone

SpecDetach == Init /\ [][NextDetach]_vars

\* the steps that happen by themselves: the client settles newCDPSession, a
\* command of initialize() and client.detach(), and the event loop runs the
\* continuations of attachToPage, detachFromPage and close().  Calls of
\* attachToPage and detachFromPage and the page's 'close' are up to the caller
\* and the page
SpecDetachFair ==
  /\ SpecDetach
  /\ WF_vars(HookCreated /\ UNCHANGED <<cmdVars, evVars, peerVars>>)
  /\ WF_vars(HookInitAnswer /\ UNCHANGED <<cmdVars, evVars, peerVars>>)
  /\ WF_vars(HookAttachFinish /\ UNCHANGED <<cmdVars, evVars, peerVars>>)
  /\ WF_vars(HookDetachDone /\ UNCHANGED <<cmdVars, evVars, peerVars>>)
  /\ WF_vars(HookCloseDetach /\ UNCHANGED <<cmdVars, evVars, peerVars>>)
  /\ WF_vars(HookCloseDone /\ UNCHANGED <<cmdVars, evVars, peerVars>>)

\* ---- teardown of either session class: the first step chooses the object
TearManagerOps ==
  {"-", "attach", "attachThrows", "sessionClose", "sessionCloseDone", "closeAllDone"}

NextTearWrapper ==
  \/ \E d \in DomDomains :
        /\ closed \/ IsDomainEnabled(d) \/ commandId < MaxTearCmd
        /\ Enable(d)
        /\ Step
  \/ \E c \in domCalls : EnableDone(c) /\ Step
  \/ \E c \in domCalls : DisableDone(c) /\ Step
  \/ \E i \in 1..MaxTearCmd, out \in DomOutcomes : OnResponse(i, out) /\ Step
  \/ \E h \in BufHandlers :
        /\ Len(listeners["closed"]) < MaxTearListeners
        /\ OnClosed(h)
        /\ Step
  \/ /\ closed \/ (closeCalls = <<>> /\ commandId + Len(EnabledDomains) <= MaxTearCmd)
     /\ Close
     /\ Did("close", 0, IF closed THEN "noop" ELSE "started", "-")
  \/ \E k \in 1..MaxCloseCalls : CloseDisabled(k) /\ Step
  \/ \E k \in 1..MaxCloseCalls, ok \in BOOLEAN :
        /\ CloseFinish(k, ok)
        /\ Did("closeDone", 0, CloseResult, IF ok THEN "closed" ELSE "closeFailed")
  \/ TransportClose /\ Did("transportClose", 0, "-", "-")

NextTearManager ==
  /\ UNCHANGED <<cmdVars, evVars, peerVars>>
  /\ \/ \E p \in MgrPages :
           /\ ExistingOpen(p) # 0 \/ attachCalls = <<>>
           /\ AttachToPage(p)
           /\ IF ExistingOpen(p) # 0 THEN Obs("attach", ExistingOpen(p), "existing", p)
                                     ELSE Quiet
     \/ \E ok \in BOOLEAN : (ok => Len(sess) < MaxTearSessions) /\ AttachCreated(1, ok) /\ Quiet
     \/ \E sid \in 1..MaxTearSessions : InitAnswer(sid, TRUE) /\ Quiet
     \/ /\ AttachFinish(1)
        /\ IF sess[attachCalls[1].sid].init = "ready"
           THEN Obs("attach", attachCalls[1].sid, "created", attachCalls[1].page)
           ELSE Obs("attachThrows", attachCalls[1].sid, "-", attachCalls[1].page)
     \/ \E sid \in 1..MaxTearSessions :
           /\ sid \in 1..Len(sess)
           /\ sess[sid].closePc = "open"
           /\ sess[sid].subs < MaxTearListeners
           /\ SessionOn(sid)
           /\ Quiet
     \/ \E sid \in 1..MaxTearSessions :
           /\ SessionClose(sid)
           /\ Obs("sessionClose", sid, IF sess[sid].closed THEN "noop" ELSE "started", "-")
     \/ \E sid \in 1..MaxTearSessions : SessionCloseDetach(sid) /\ Quiet
     \/ \E sid \in 1..MaxTearSessions, ok \in BOOLEAN :
           /\ SessionCloseDone(sid, ok)
           /\ Obs("sessionCloseDone", sid, SessionCloseResult,
                  IF ok THEN "detached" ELSE "detachFailed")
     \/ CloseAll /\ Quiet
     \/ CloseAllDone /\ Obs("closeAllDone", 0, CloseAllResult, "-")

NextTear ==
  \/ lastOp.op \notin TearManagerOps /\ NextTearWrapper
  \/ lastOp.op \in TearManagerOps \cup {"init"} /\ NextTearManager

SpecTear == Init /\ [][NextTear]_vars

(***************************************************************************)
(* Properties of command correlation (SpecCorr)                            *)
(***************************************************************************)
\* C1: a transport response carrying id i settles exactly the send() call
\* that was allocated id i, with that response's result, and leaves every
\* other call as it was, whatever the order the responses arrive in.
C1_ResponseSettlesItsCall ==
  [][lastOp'.op = "response" =>
       LET i == lastOp'.id
           out == lastOp'.res
       IN /\ Len(futures') = Len(futures)
          /\ \A j \in 1..Len(futures) : j # i => futures'[j] = futures[j]
          /\ (i \in 1..Len(futures) /\ futures[i].st = "pending") =>
                futures'[i] = IF out = "error" THEN Rejected("protocol") ELSE Resolved(out)]_vars

\* the response for command 3 has arrived before those of commands 1 and 2
C1_Witness ==
  /\ lastOp = Op("response", 3, "b", "-")
  /\ Len(futures) = 3
  /\ futures[3] = Resolved("b")
  /\ futures[1].st = "pending"
  /\ futures[2].st = "pending"

\* C13: a response whose id has no entry in the pending table (late,
\* duplicate or unknown) settles no send() future and leaves the pending
\* table, the domain map, the buffers and the subscribers unchanged.
C13_UnmatchedResponseDiscarded ==
  [][(lastOp'.op = "response" /\ lastOp'.id \notin pendingCommands) =>
        UNCHANGED <<futures, pendingCommands, domains, domainKeys, heap,
                    eventBuffer, eventHandlers, listeners>>]_vars

\* a second response for command 1, carrying another result, while command 2
\* is outstanding: call 1 keeps its first result
C13_Witness ==
  /\ lastOp = Op("response", 1, "b", "-")
  /\ Len(futures) = 2
  /\ futures[1] = Resolved("a")
  /\ futures[2].st = "pending"
  /\ pendingCommands = {2}

\* C5: close() is idempotent, also when a second call starts while the first
\* is still awaiting teardown: the transport is closed at most once.
C5_TransportClosedOnce == connCloseCalls <= 1

(***************************************************************************)
(* Properties of the domain bookkeeping (SpecDom)                          *)
(***************************************************************************)
Unanswered(d, verb) ==
  {i \in pendingCommands : sent[i] = DomainCommand(d, verb)}

\* C2: enable(domain) called a second time before the first call's command
\* has been answered issues no second '<domain>.enable' command: at most one
\* enable command of a domain is unanswered at any time.
C2_OneEnableCommand ==
  \A d \in Domains : Cardinality(Unanswered(d, "enable")) <= 1

\* C9: on an open session isDomainEnabled(d) is true exactly when the last
\* successfully completed enable/disable operation on d was an enable.
C9_EnabledIffLastWasEnable ==
  ~closed => \A d \in Domains :
                lastDone[d] # "none" => (IsDomainEnabled(d) <=> lastDone[d] = "enable")

(***************************************************************************)
(* Properties of the event buffer (SpecBuf)                                *)
(***************************************************************************)
Min(a, b) == IF a < b THEN a ELSE b

\* the n most recent of the events 1..total, oldest first
MostRecent(total, n) == [k \in 1..n |-> total - n + k]

\* C3: subscribe(event, handler) after N events of that name calls the handler
\* with exactly the min(N, 100) most recent payloads, oldest first, and an
\* event that arrives afterwards is delivered on its own, after the replay.
C3_ReplayOnSubscribe ==
  /\ lastOp.op = "subscribe" =>
        LET e == lastOp.res
            N == produced[e]
            m == Min(N, BufferLimit)
        IN delivered = [k \in 1..m |-> Call(lastOp.h, e, MostRecent(N, m)[k])]
  /\ (lastOp.op = "event" /\ lastOp.id > 0) =>
        delivered = [k \in 1..Len(listeners[lastOp.res]) |->
                       Call(listeners[lastOp.res][k], lastOp.res, lastOp.id)]

\* a subscribe after 101 events: 100 replay calls, the first one with event 2
C3_Witness ==
  /\ lastOp.op = "subscribe"
  /\ produced[lastOp.res] = BufferLimit + 1
  /\ Len(delivered) = BufferLimit
  /\ delivered[1].p = 2
  /\ delivered[BufferLimit].p = BufferLimit + 1

\* C4: each per-event-name buffer holds at most 100 payloads and is always
\* the most recent payloads of that name in arrival order.
C4_BufferIsMostRecent ==
  \A e \in EventNames :
     /\ Len(eventBuffer[e]) <= BufferLimit
     /\ eventBuffer[e] = MostRecent(produced[e], Min(produced[e], BufferLimit))

\* the 102nd event of a name has arrived: events 1 and 2 are gone
C4_Witness ==
  \E e \in EventNames :
     /\ produced[e] = BufferLimit + 2
     /\ Len(eventBuffer[e]) = BufferLimit
     /\ eventBuffer[e][1] = 3
     /\ eventBuffer[e][BufferLimit] = BufferLimit + 2

(***************************************************************************)
(* Properties of the registry                                              *)
(***************************************************************************)
\* C6: once the close of a session has completed, no command of that session
\* is left unsettled (SpecMgr).
C6_NoCommandLeftAfterClose ==
  \A s \in 1..Len(sess) : sess[s].closePc = "done" => sess[s].out = 0

\* C7: after closeAll() returns both indices are empty: no session is held by
\* id and getSession(target) finds nothing for a target attached before the
\* call (SpecMgr).
C7_IndicesEmptyAfterCloseAll ==
  lastOp.op = "closeAllDone" =>
     /\ sessions = {}
     /\ \A p \in closeAllCall.targets : GetSession(p) = 0

\* C8: attachToPage(target) calls with no detachFromPage(target) between them
\* return the identical session instance (SpecAttach).
C8_SameInstance ==
  \A p \in Pages : Cardinality(returned[p]) <= 1

\* C10: getNetworkData(target) and getConsoleMessages(target), for a target
\* that has no session in the registry, return an empty collection, do not
\* fail, and leave the registry unchanged (SpecData).
C10_QueryWithoutSession ==
  [][(lastOp'.op \in {"getNetworkData", "getConsoleMessages"} /\ GetSession(lastOp'.h) = 0) =>
       /\ lastOp'.res = "ok"
       /\ lastOp'.id = 0
       /\ UNCHANGED mgrVars]_vars

\* getNetworkData for a page that was never attached, while the session of
\* another page holds a request and a console message
C10_Witness ==
  /\ lastOp = Op("getNetworkData", 0, "ok", "p2")
  /\ GetSession("p2") = 0
  /\ GetSession("p1") # 0
  /\ sess[GetSession("p1")].net > 0
  /\ sess[GetSession("p1")].con > 0

(***************************************************************************)
(* Properties of a session's lifetime (SpecLife)                           *)
(***************************************************************************)
\* C11: once a session's closed flag is true no new pending command is
\* created: a send() on the closed session throws, allocates no id, adds no
\* pending entry and passes nothing to the transport (both session classes),
\* and no other step of a closed wrapper does either.
C11_NoCommandOnceClosed ==
  [][/\ closed => /\ UNCHANGED <<commandId, sent>>
                  /\ pendingCommands' \subseteq pendingCommands
                  /\ Len(futures') = Len(futures)
     /\ (lastOp'.op = "send" /\ closed) =>
           /\ lastOp'.res = "throws"
           /\ UNCHANGED <<pendingCommands, futures>>
     /\ (lastOp'.op = "sessionSend" /\ sess[lastOp'.id].closed) =>
           /\ lastOp'.res = "throws"
           /\ sess' = sess]_vars

\* a send() that threw on a session closed while command 1 was outstanding
C11_Witness ==
  /\ lastOp = Op("send", 0, "throws", "-")
  /\ closed
  /\ commandId = 1
  /\ futures = <<Rejected("closed")>>
  /\ pendingCommands = {}

\* C12: in every state in which the wrapper's closed flag is true, its domain
\* map, pending-command table, event buffers and subscriber sets are empty.
C12_ClosedMeansEmpty ==
  closed => /\ \A d \in Domains : domains[d] = 0
            /\ pendingCommands = {}
            /\ \A e \in EventNames : eventBuffer[e] = <<>> /\ eventHandlers[e] = {}

\* C14: the ids send() allocates are pairwise distinct and strictly
\* increasing in call order: every new pending entry has an id above all ids
\* allocated before, and an id whose command was settled is never used again.
C14_IdsIncrease ==
  [][/\ commandId' >= commandId
     /\ pendingCommands' \ pendingCommands = (commandId + 1)..commandId'
     /\ Len(futures') = commandId' /\ Len(sent') = commandId'
     /\ \A i \in 1..commandId :
           /\ sent'[i] = sent[i]
           /\ futures[i].st # "pending" => futures'[i] = futures[i]]_vars

\* command 1 was answered and its entry removed; the next send() got id 2
C14_Witness ==
  /\ lastOp = Op("send", 2, "pending", "-")
  /\ futures[1].st = "resolved"
  /\ futures[2].st = "pending"
  /\ pendingCommands = {2}

(***************************************************************************)
(* Properties of failing domain commands (SpecFail)                        *)
(***************************************************************************)
\* C15: a domain is recorded as enabled only by an enable() whose command
\* succeeded; an enable() or disable() whose command failed (error response,
\* transport send failure, session close) throws to its caller and leaves
\* the recorded state of the domains as it was.
C15_FailureLeavesDomainState ==
  [][/\ (lastOp'.op \in {"enableDone", "disableDone"} /\ futures[lastOp'.id].st = "rejected") =>
           /\ lastOp'.res = "throws"
           /\ UNCHANGED <<domains, domainKeys, heap>>
     /\ (lastOp'.op \in {"enable", "disable"} /\ lastOp'.res = "throws") =>
           UNCHANGED <<domains, domainKeys, heap>>
     /\ \A d \in Domains :
           (~IsDomainEnabled(d) /\ IsDomainEnabled(d)') =>
              /\ lastOp'.op = "enableDone" /\ lastOp'.h = d /\ lastOp'.res = "ok"
              /\ sent[lastOp'.id] = DomainCommand(d, "enable")
              /\ futures[lastOp'.id].st = "resolved"]_vars

\* a disable() whose command was answered with an error has thrown and the
\* domain is still recorded as enabled
C15_Witness ==
  /\ lastOp = Op("disableDone", 2, "throws", "Network")
  /\ futures[2] = Rejected("protocol")
  /\ IsDomainEnabled("Network")

(***************************************************************************)
(* Properties of event delivery (SpecDeliver)                              *)
(***************************************************************************)
CallsTo(h) == {k \in 1..Len(delivered) : delivered[k].h = h}

\* C16: when a handler subscribed to an event name fails while an event is
\* delivered, every other handler of that name still receives the event, the
\* event is in the buffer, and the failure does not reach the event source.
C16_HandlerFailureIsolated ==
  lastOp.op = "event" =>
     LET e == lastOp.res
     IN /\ lastOp.h = "ok"
        /\ \A k \in 1..Len(listeners[e]) : CallsTo(listeners[e][k]) # {}
        /\ eventBuffer[e] # <<>>
        /\ eventBuffer[e][Len(eventBuffer[e])] = lastOp.id

\* C17: every handler subscribed to an event name receives each event of
\* that name that arrives after the subscribe exactly once, for any sequence
\* of subscribe and unsubscribe calls, also when the same handler was
\* subscribed more than once (events during which no handler fails).
C17_DeliveredExactlyOnce ==
  (lastOp.op = "event" /\ lastOp.h = "ok") =>
     \A h \in eventHandlers[lastOp.res] \ FailingHandlers :
        /\ Cardinality(CallsTo(h)) = 1
        /\ \A k \in CallsTo(h) : delivered[k].p = lastOp.id

\* C18: the closed state is absorbing for both session classes: a closed
\* session stays closed through every later step, attachToPage never hands
\* out a closed session as the existing one, and the session a new attach
\* creates is a new, open instance.
C18_ClosedIsAbsorbing ==
  [][/\ closed => closed'
     /\ Len(sess') >= Len(sess)
     /\ \A s \in 1..Len(sess) : sess[s].closed => sess'[s].closed
     /\ \A s \in (Len(sess) + 1)..Len(sess') : ~sess'[s].closed
     /\ (lastOp'.op = "attach" /\ lastOp'.res = "existing") => ~sess'[lastOp'.id].closed]_vars

\* the page's first session was closed; a new attachToPage created and
\* returned a second one, and the first is still closed
C18_Witness ==
  /\ lastOp = Op("attach", 2, "created", "p1")
  /\ Len(sess) = 2
  /\ sess[1].closePc = "done"
  /\ sess[1].closed
  /\ ~sess[2].closed

\* C19: when the enable command of a critical domain fails during bring-up,
\* attachToPage fails to its caller and the session is closed afterwards. A
\* session whose initialize() has thrown before setupEventListeners() ran
\* (listening is false) was aborted inside the domain loop, which only a
\* critical domain (or a closed session) does (SpecAttach).
C19_CriticalFailureCloses ==
  (lastOp.op = "attachThrows" /\ ~sess[lastOp.id].listening) => sess[lastOp.id].closed

\* the domains of the bring-up list other than Runtime, Network and Page
AuxiliaryDomains == {"DOM", "CSS", "Console", "Performance", "Security", "Fetch"}

\* command k of initialize() is the enable command of an auxiliary domain
AuxiliaryStep(k) == k \in 1..Len(REQUIRED_DOMAINS) /\ REQUIRED_DOMAINS[k] \in AuxiliaryDomains

\* C20: when the enable command of an auxiliary domain fails during bring-up,
\* bring-up goes on with the next command of the list; initialize() throws
\* only when another command fails (a critical domain's enable command or one
\* of the two commands after the domain loop); and the session attachToPage
\* returns after creating it has completed bring-up and is open (SpecInit).
C20_AuxiliaryFailureTolerated ==
  [][/\ \A sid \in 1..Len(sess) :
          (lastOp' = Op("initAnswer", sid, "error", "-") /\ AuxiliaryStep(sess[sid].step)) =>
             /\ sess'[sid].init = "running"
             /\ sess'[sid].step = sess[sid].step + 1
             /\ ~sess'[sid].closed
     /\ \A sid \in 1..Len(sess) :
          (sess[sid].init = "running" /\ sess'[sid].init = "failed") =>
             /\ lastOp' = Op("initAnswer", sid, "error", "-")
             /\ ~AuxiliaryStep(sess[sid].step)
     /\ (lastOp'.op = "attach" /\ lastOp'.res = "created") =>
             /\ sess'[lastOp'.id].init = "ready"
             /\ ~sess'[lastOp'.id].closed]_vars

\* DOM.enable has just failed and the session awaits CSS.enable
C20_Witness ==
  /\ lastOp = Op("initAnswer", 1, "error", "-")
  /\ ~sess[1].closed
  /\ sess[1].init = "running"
  /\ REQUIRED_DOMAINS[sess[1].step - 1] = "DOM"

\* C29: every session attachToPage returns has completed its bring-up
\* sequence: initialize() is neither still running nor failed, also when the
\* call overlaps an earlier attachToPage for the same page or follows one
\* that failed (SpecAttach).
C29_ReturnedSessionIsInitialised ==
  lastOp.op = "attach" => sess[lastOp.id].init = "ready"

\* C30: when attachToPage(page) fails, the registry is as it was before the
\* call: the failed session is in neither index (SpecAttach).
C30_FailedAttachLeavesNoEntry ==
  lastOp.op = "attachThrows" =>
     /\ lastOp.id \notin sessions
     /\ GetSession(lastOp.h) # lastOp.id

\* the order the bring-up list is specified to have
BringUpOrder ==
  <<"Runtime", "Network", "Page", "DOM", "CSS", "Console", "Performance", "Security", "Fetch">>

\* the command a session awaits before and after a step (0: none issued yet)
StepBefore(sid) == IF sid \in 1..Len(sess) THEN sess[sid].step ELSE 0

\* C28: during bring-up the enable commands are issued one at a time in the
\* order Runtime, Network, Page, DOM, CSS, Console, Performance, Security,
\* Fetch: a new session starts with command 1 (Runtime.enable), and a session
\* moves to another command only in the step that answers the command it
\* awaits, and then to the next one of the list (SpecInit).
C28_EnableOneAtATime ==
  [][/\ REQUIRED_DOMAINS = BringUpOrder
     /\ \A sid \in 1..Len(sess') :
          (sess'[sid].init = "running" /\ sess'[sid].step # StepBefore(sid)) =>
             /\ sess'[sid].step = StepBefore(sid) + 1
             /\ StepBefore(sid) > 0 =>
                   /\ sess[sid].init = "running"
                   /\ lastOp'.op = "initAnswer"
                   /\ lastOp'.id = sid]_vars

\* DOM.enable has been answered with a result and CSS.enable is awaited
C28_Witness ==
  /\ lastOp = Op("initAnswer", 1, "ok", "-")
  /\ sess[1].init = "running"
  /\ REQUIRED_DOMAINS[sess[1].step] = "CSS"

\* C25: send() on a session that is closing (a close() call has started and
\* has not finished) or closed fails at once: it throws, and no command is
\* passed to the transport whose answer could resolve it; for both session
\* classes (SpecLife).
C25_SendFailsWhileClosing ==
  [][/\ (lastOp'.op = "send" /\ (closed \/ closeCalls # <<>>)) =>
           /\ lastOp'.res = "throws"
           /\ sent' = sent
     /\ (lastOp'.op = "sessionSend" /\ sess[lastOp'.id].closePc # "open") =>
           lastOp'.res = "throws"]_vars

\* C22: close() always completes: a close() call that has started leads to
\* the session being closed, although the transport may leave a disable
\* command of the teardown unanswered and may send no 'close' signal
\* (SpecDomFair).
C22_CloseCompletes ==
  (closeCalls # <<>>) ~> closed

C26_DisableBeforeDetach ==
  [][/\ (lastOp'.op = "close" /\ lastOp'.res = "started") =>
           /\ connCloseCalls' = connCloseCalls
           /\ \A d \in DomDomains :
                 IsDomainEnabled(d) =>
                    \E i \in (commandId + 1)..commandId' : sent'[i] = DomainCommand(d, "disable")
     /\ \A s \in 1..Len(sess) :
           (sess[s].closePc = "disabling" /\ sess'[s].closePc = "detaching"
              /\ sess[s].init = "ready") =>
                 sess'[s].dis = Len(REQUIRED_DOMAINS)]_vars

\* C27: the close of a session delivers 'closed' exactly once to every
\* listener registered for it before the close began, for both session
\* classes (SpecTear).
C27_ClosedNotifiedOnce ==
  [][/\ (~closed /\ closed') =>
           delivered' = [k \in 1..Len(listeners["closed"]) |-> ClosedCall(listeners["closed"][k])]
     /\ \A s \in 1..Len(sess) :
           (sess[s].closePc = "detaching" /\ sess'[s].closePc = "done") =>
              sess'[s].notified = sess[s].subs]_vars

\* C23: when detachFromPage(page) completes for a page that had session S,
\* S is closed, neither index holds S (getSession(page) is undefined and S's
\* id is not a key of sessions) and 'sessionClosed' carrying S's id is
\* emitted; detachFromPage on a page with no session changes nothing and
\* emits nothing (SpecDetach).
C23_DetachRemovesSession ==
  [][/\ lastOp'.op = "detachDone" =>
           /\ \E k \in 1..Len(detachCalls) :
                 detachCalls[k].sid = lastOp'.id /\ detachCalls[k].page = lastOp'.h
           /\ sess'[lastOp'.id].closed
           /\ lastOp'.id \notin sessions'
           /\ pageToSessionMap'[lastOp'.h] = 0
           /\ lastOp'.res = "sessionClosed"
     /\ (lastOp'.op = "detach" /\ GetSession(lastOp'.h) = 0) =>
           /\ UNCHANGED <<sessions, pageToSessionMap, sess, attachCalls, detachCalls,
                          closeAllCall, pageState>>
           /\ lastOp'.res = "noop"]_vars

\* detachFromPage(p1) has completed for session 1, whose teardown is over
C23_Witness ==
  /\ lastOp = Op("detachDone", 1, "sessionClosed", "p1")
  /\ sess[1].closed
  /\ sess[1].closePc = "done"
  /\ sess[1].init = "ready"
  /\ sessions = {}
  /\ GetSession("p1") = 0

\* C24: when a page closes while it has a session whose bring-up is running
\* or complete, the session is detached: eventually the registry holds no
\* entry for the page in either index (SpecDetachFair).
C24_PageCloseDetaches ==
  \A p \in MgrPages :
     (/\ pageState[p].closed
      /\ GetSession(p) # 0
      /\ sess[GetSession(p)].init \in {"running", "ready"})
        ~> (GetSession(p) = 0 /\ \A s \in sessions : sess[s].page # p)

\* C31: in every reachable state of the registry, under any interleaving of
\* attachToPage and detachFromPage on the same page, a session is in the
\* sessions index exactly when it is the session mapped from its page (so a
\* page has at most one session), and a detachFromPage that completes removes
\* no mapping other than that of the session it closed (SpecAttach).
C31_IndicesAgree ==
  [][/\ \A s \in sessions' : pageToSessionMap'[sess'[s].page] = s
     /\ \A p \in Pages : pageToSessionMap'[p] # 0 => pageToSessionMap'[p] \in sessions'
     /\ lastOp'.op = "detachDone" => pageToSessionMap[lastOp'.h] \in {0, lastOp'.id}]_vars

\* C35: the registry emits 'sessionClosed' at most once per session, under
\* any interleaving of detachFromPage calls by the caller and by the page's
\* 'close' hook for the same page (SpecDetach).
C35_SessionClosedOnce ==
  \A sid \in 1..Len(sess) : sess[sid].notes <= 1

\* the commands whose send() future is not settled yet
UnsettledCommands == {i \in 1..Len(futures) : futures[i].st = "pending"}

\* C33: in every reachable state of an open session the pending table holds
\* exactly the commands whose send() future is unsettled, so
\* getMetrics().pendingCommands is the number of unsettled commands; an entry
\* goes when its future is resolved or rejected, also when the transport's
\* own send fails (SpecCorr).
C33_PendingIsUnsettled ==
  ~closed => /\ pendingCommands = UnsettledCommands
             /\ Cardinality(pendingCommands) = Cardinality(UnsettledCommands)

\* C34: after unsubscribe(event, handler) the handler is called for no later
\* event of that name until it is subscribed again, whatever subscribe calls
\* came before (the same handler subscribed twice included), and unsubscribe
\* leaves the event's buffer unchanged.  A handler is out of
\* eventHandlers[event] exactly when it was never subscribed or was
\* unsubscribed after its last subscribe (SpecDeliver).
C34_UnsubscribedNotCalled ==
  [][/\ lastOp'.op = "unsubscribe" => eventBuffer' = eventBuffer
     /\ lastOp'.op = "event" =>
           \A h \in Handlers \ eventHandlers[lastOp'.res] :
              \A k \in 1..Len(delivered') : delivered'[k].h # h]_vars

\* C32: when two wrappers are bound to the same connection and each has an
\* outstanding command, one response of the connection settles a pending
\* command in at most one of the two (SpecShared).
C32_ResponseSettlesOneSession ==
  [][(/\ lastOp'.op = "response"
      /\ pendingCommands # {}
      /\ peer.pendingCommands # {}) =>
        ~(/\ pendingCommands' # pendingCommands
          /\ peer'.pendingCommands # peer.pendingCommands)]_vars
====
